---------------------------- MODULE Spec2Model ----------------------------
(***************************************************************************)
(* Model of the error extraction and grouping code of                      *)
(* llm_toolkit/code_fixer.py:                                              *)
(*   get_fuzz_target_compile_output  (Compile-Output Resolver)             *)
(*   get_jcc_errstr                  (Transcript Error Extractor)          *)
(*   extract_error_message           (Build-Log Error Extractor)           *)
(*   group_error_messages            (Error Grouper)                       *)
(* Lines and tokens are real strings; the regular expressions and string   *)
(* methods of the source are modelled character by character.              *)
(***************************************************************************)
EXTENDS Integers, Sequences, FiniteSets, TLC

(***************************************************************************)
(* Characters and the string methods the source uses.                      *)
(***************************************************************************)
At(s, i) == SubSeq(s, i, i)

From(s, i) == SubSeq(s, i, Len(s))

Digits == {"0", "1", "2", "3", "4", "5", "6", "7", "8", "9"}

\* Python's whitespace (str.rstrip(), str.split(), \s) within the alphabet used.
Whitespace == {" ", "\t", "\n", "\r", "\f"}

StartsWith(s, p) == Len(p) <= Len(s) /\ SubSeq(s, 1, Len(p)) = p

Contains(s, p) == \E i \in 1..(Len(s) - Len(p) + 1) : SubSeq(s, i, i + Len(p) - 1) = p

\* Every character of s[a..b] is not whitespace: the text a \S* can match.
AllNonSpace(s, a, b) == \A k \in a..b : At(s, k) \notin Whitespace

\* Every character of s[a..b] is not a newline: the text a .* can match.
AllDot(s, a, b) == \A k \in a..b : At(s, k) # "\n"

\* str.rstrip(): drop the trailing whitespace.
RECURSIVE rstrip(_)
rstrip(s) ==
  IF Len(s) > 0 /\ At(s, Len(s)) \in Whitespace
  THEN rstrip(SubSeq(s, 1, Len(s) - 1))
  ELSE s

\* '\n'.join(block)
RECURSIVE Join(_)
Join(block) ==
  IF Len(block) = 0 THEN ""
  ELSE IF Len(block) = 1 THEN block[1]
  ELSE block[1] \o "\n" \o Join(Tail(block))

\* str.split('\n') of a joined block: the lines of a block string.
RECURSIVE SplitLinesFrom(_, _, _)
SplitLinesFrom(s, i, start) ==
  IF i > Len(s) THEN <<SubSeq(s, start, Len(s))>>
  ELSE IF At(s, i) = "\n"
       THEN <<SubSeq(s, start, i - 1)>> \o SplitLinesFrom(s, i + 1, i + 1)
       ELSE SplitLinesFrom(s, i + 1, start)

SplitLines(s) == SplitLinesFrom(s, 1, 1)

\* Index just after a match of  :\d+  that starts at s[i], or 0 when there is
\* none.  The digits are followed by a non-digit in every pattern that uses
\* this, so the run of digits is the maximal one.
RECURSIVE DigitRunEnd(_, _)
DigitRunEnd(s, i) ==
  IF i <= Len(s) /\ At(s, i) \in Digits THEN DigitRunEnd(s, i + 1) ELSE i

AfterColonNum(s, i) ==
  IF i >= 1 /\ i <= Len(s) /\ At(s, i) = ":" /\ DigitRunEnd(s, i + 1) > i + 1
  THEN DigitRunEnd(s, i + 1)
  ELSE 0

Max(S) == CHOOSE x \in S : \A y \in S : y <= x

(***************************************************************************)
(* group_error_messages: the patterns.                                     *)
(***************************************************************************)
state_unknown == "UNKNOWN"

state_include == "INCLUDE"

state_diag == "DIAG"

state_ld == "LD"

linker_error_string == "/usr/bin/ld: "

llvm_linker_error_string == "ld.lld: "

linker_error_end_string ==
  "clang-15: error: linker command failed with exit code 1 (use -v to see invocation)"

dwarf_error_string == "DWARF error: invalid or unhandled FORM value: "

\* Index where  (.+): (.+)  begins when  :\d+:\d+:<space>  matches at s[i],
\* else 0.
DiagLocEnd(s, i) ==
  LET p1 == AfterColonNum(s, i)
      p2 == IF p1 = 0 THEN 0 ELSE AfterColonNum(s, p1)
  IN  IF p2 # 0 /\ p2 + 1 <= Len(s) /\ SubSeq(s, p2, p2 + 1) = ": "
      THEN p2 + 2
      ELSE 0

\* The ends k of group 2 for which  (.+): (.+)  matches s[r..] in full.
SeverityEnds(s, r) ==
  {k \in r..(Len(s) - 3) :
     /\ AllDot(s, r, k)
     /\ SubSeq(s, k + 1, k + 2) = ": "
     /\ AllDot(s, k + 3, Len(s))}

\* The ends g of group 1 for which (\S*):\d+:\d+: (.+): (.+) matches s in full.
DiagSrcEnds(s) ==
  {g \in 0..Len(s) :
     /\ AllNonSpace(s, 1, g)
     /\ DiagLocEnd(s, g + 1) # 0
     /\ SeverityEnds(s, DiagLocEnd(s, g + 1)) # {}}

\* diag_error_pattern.fullmatch(line): greedy groups take the longest text.
diag_match(line) ==
  IF DiagSrcEnds(line) = {}
  THEN [matched |-> FALSE, err_src |-> "", severity |-> ""]
  ELSE LET g == Max(DiagSrcEnds(line))
           r == DiagLocEnd(line, g + 1)
       IN  [matched  |-> TRUE,
            err_src  |-> SubSeq(line, 1, g),
            severity |-> SubSeq(line, r, Max(SeverityEnds(line, r)))]

IncludePrefix == "In file included from "

IncludeSrcEnds(s) ==
  {g \in Len(IncludePrefix)..Len(s) :
     /\ AllNonSpace(s, Len(IncludePrefix) + 1, g)
     /\ AfterColonNum(s, g + 1) = Len(s)
     /\ At(s, Len(s)) = ":"}

\* include_error_pattern.fullmatch(line)
include_match(line) ==
  IF StartsWith(line, IncludePrefix) /\ IncludeSrcEnds(line) # {}
  THEN [matched  |-> TRUE,
        src_file |-> SubSeq(line, Len(IncludePrefix) + 1, Max(IncludeSrcEnds(line)))]
  ELSE [matched |-> FALSE, src_file |-> ""]

\* re.fullmatch(r'.*\d+ errors? generated.', line): the final dot is any
\* character but a newline.
diag_error_end_match(line) ==
  /\ AllDot(line, 1, Len(line))
  /\ \E suffix \in {" error generated", " errors generated"} :
       LET n == Len(line) - 1 - Len(suffix)
       IN  /\ n >= 1
           /\ SubSeq(line, n + 1, Len(line) - 1) = suffix
           /\ At(line, n) \in Digits

IsLinkerLine(line) ==
  StartsWith(line, linker_error_string) \/ StartsWith(line, llvm_linker_error_string)

\* line.split(' ', maxsplit=1)[1]
RECURSIVE FirstSpace(_, _)
FirstSpace(s, i) ==
  IF i > Len(s) THEN 0 ELSE IF At(s, i) = " " THEN i ELSE FirstSpace(s, i + 1)

AfterFirstSpace(s) == From(s, FirstSpace(s, 1) + 1)

(***************************************************************************)
(* group_error_messages: one iteration of the loop over error_lines.       *)
(* g is the record of the function's locals.                               *)
(***************************************************************************)
GroupInit ==
  [error_blocks |-> <<>>, curr_block |-> <<>>, src_file |-> "",
   curr_state |-> state_unknown]

\* curr_block.append(line)
AppendLine(g, line) == [g EXCEPT !.curr_block = Append(@, line)]

\* A slip in SealIfNonEmpty: curr_block is not emptied after the push.
SealIfNonEmpty_KeepsBlock(g) ==
  IF g.curr_block # <<>>
  THEN [g EXCEPT !.error_blocks = Append(@, Join(g.curr_block))]
  ELSE g

\* if curr_block: error_blocks.append('\n'.join(curr_block)); curr_block = []
SealIfNonEmpty(g) ==
  IF g.curr_block # <<>>
  THEN [g EXCEPT !.error_blocks = Append(@, Join(g.curr_block)),
                 !.curr_block = <<>>]
  ELSE g

\* error_blocks.append('\n'.join(curr_block)); curr_block = []
SealAlways(g) ==
  [g EXCEPT !.error_blocks = Append(@, Join(g.curr_block)),
            !.curr_block = <<>>]

\* A slip in OnNote: the note starts a block of its own.
OnNote_Seals(g, line) == AppendLine(SealIfNonEmpty(g), line)

\* severity == 'note': the line joins the current block.
OnNote(g, line) == AppendLine(g, line)

\* A slip in IsNestedDiag: the comparison of the source files is inverted.
IsNestedDiag_SameFile(g, err_src) == g.curr_state = state_include /\ err_src = g.src_file

\* curr_state == state_include and err_src != src_file
IsNestedDiag(g, err_src) == g.curr_state = state_include /\ err_src # g.src_file

\* A diagnostic that starts a block of its own.
OnDiag(g) == SealIfNonEmpty([g EXCEPT !.curr_state = state_diag])

OnInclude(g, src) ==
  SealIfNonEmpty([g EXCEPT !.src_file = src, !.curr_state = state_include])

OnDiagEnd(g) == SealAlways([g EXCEPT !.curr_state = state_unknown])

\* A slip in OnLinker: the state is left as it was.
OnLinker_KeepsState(g) == SealIfNonEmpty(g)

OnLinker(g) == SealIfNonEmpty([g EXCEPT !.curr_state = state_ld])

OnLinkerEnd(g) == SealAlways([g EXCEPT !.curr_state = state_unknown])

\* A slip in OnOther: the line is appended without the UNKNOWN test.
OnOther_NoSeal(g, line) == AppendLine(g, line)

\* Keep unknown error lines separated, then curr_block.append(line).
OnOther(g, line) ==
  AppendLine(IF g.curr_state = state_unknown THEN SealIfNonEmpty(g) ELSE g, line)

\* The part of the loop body from the linker test on.
GroupLinkerPart(g, line) ==
  LET isld == IsLinkerLine(line)
      g1   == IF isld THEN OnLinker(g) ELSE g
      ln   == IF isld THEN AfterFirstSpace(line) ELSE line
  IN  IF isld /\ Contains(line, dwarf_error_string) THEN g1
      ELSE IF StartsWith(ln, linker_error_end_string) THEN OnLinkerEnd(g1)
      ELSE OnOther(g1, ln)

\* The part of the loop body from the include test on.
GroupIncludePart(g, line) ==
  LET im == include_match(line)
      g1 == IF im.matched THEN OnInclude(g, im.src_file) ELSE g
  IN  IF diag_error_end_match(line) THEN OnDiagEnd(g1)
      ELSE GroupLinkerPart(g1, line)

\* The loop body.
GroupLine(g, line) ==
  IF line = "" THEN g
  ELSE LET dm == diag_match(line)
       IN  IF ~dm.matched THEN GroupIncludePart(g, line)
           ELSE IF dm.severity = "note" THEN OnNote(g, line)
           ELSE IF IsNestedDiag(g, dm.err_src) THEN AppendLine(g, line)
           ELSE GroupIncludePart(OnDiag(g), line)

\* After the loop: the last block is sealed when it is not empty.
GroupFinish(g) == SealIfNonEmpty(g).error_blocks

\* group_error_messages(error_lines)
RECURSIVE GroupFrom(_, _, _)
GroupFrom(g, error_lines, i) ==
  IF i > Len(error_lines) THEN GroupFinish(g)
  ELSE GroupFrom(GroupLine(g, error_lines[i]), error_lines, i + 1)

group_error_messages(error_lines) == GroupFrom(GroupInit, error_lines, 1)

(***************************************************************************)
(* get_fuzz_target_compile_output                                          *)
(***************************************************************************)
RECURSIVE LastIndexOf(_, _, _)
LastIndexOf(s, c, i) ==
  IF i < 1 THEN 0 ELSE IF At(s, i) = c THEN i ELSE LastIndexOf(s, c, i - 1)

\* os.path.basename(p)
basename(p) == From(p, LastIndexOf(p, "/", Len(p)) + 1)

\* os.path.splitext(p)[0]: the extension starts at the last dot of the last
\* path component, unless only dots precede it there.
splitext_root(p) ==
  LET sepIndex == LastIndexOf(p, "/", Len(p))
      dotIndex == LastIndexOf(p, ".", Len(p))
  IN  IF dotIndex > sepIndex /\ \E k \in (sepIndex + 1)..(dotIndex - 1) : At(p, k) # "."
      THEN SubSeq(p, 1, dotIndex - 1)
      ELSE p

\* os.path.splitext(p)[1]
splitext_ext(p) == From(p, Len(splitext_root(p)) + 1)

InList(x, list) == \E k \in 1..Len(list) : list[k] = x

ResolveInit == [output_name |-> "", target_found |-> "", raised |-> FALSE]

\* arg in ['-o'] or arg == '--output' and i < len(compile_args); i is the
\* 1-based position here, the source's index is i - 1.
IsOutputFlag(compile_args, i) ==
  \/ compile_args[i] = "-o"
  \/ compile_args[i] = "--output" /\ i - 1 < Len(compile_args)

\* output_name = compile_args[i + 1]: an IndexError when arg is the last one.
TakeNextArg(r, compile_args, i) ==
  IF i + 1 > Len(compile_args)
  THEN [r EXCEPT !.raised = TRUE]
  ELSE [r EXCEPT !.output_name = compile_args[i + 1]]

\* One iteration of the loop over compile_args.
ResolveArg(r, target_names, compile_args, i) ==
  LET arg == compile_args[i]
  IN  IF IsOutputFlag(compile_args, i) THEN TakeNextArg(r, compile_args, i)
      ELSE IF StartsWith(arg, "--output=")
           THEN [r EXCEPT !.output_name = From(arg, Len("--output=") + 1)]
      ELSE IF StartsWith(arg, "-o") THEN [r EXCEPT !.output_name = From(arg, 3)]
      ELSE IF StartsWith(arg, "-") THEN r
      ELSE IF arg = r.output_name THEN r
      ELSE IF InList(basename(arg), target_names)
           THEN [r EXCEPT !.target_found = basename(arg)]
      ELSE r

\* The default output of an invocation that names none.
DefaultOutput(target_found, compile_args) ==
  IF InList("-c", compile_args)
  THEN splitext_root(target_found) \o ".o"
  ELSE "a.out"

\* The statements after the loop.
ResolveResult(r, compile_args) ==
  IF r.target_found # ""
  THEN IF r.output_name = ""
       THEN DefaultOutput(r.target_found, compile_args)
       ELSE basename(r.output_name)
  ELSE ""

\* The whole call: [raised, value].  A raised IndexError leaves the loop.
RECURSIVE ResolveFrom(_, _, _, _)
ResolveFrom(r, target_names, compile_args, i) ==
  IF r.raised THEN [raised |-> TRUE, value |-> ""]
  ELSE IF i > Len(compile_args)
       THEN [raised |-> FALSE, value |-> ResolveResult(r, compile_args)]
  ELSE ResolveFrom(ResolveArg(r, target_names, compile_args, i),
                   target_names, compile_args, i + 1)

get_fuzz_target_compile_output(target_names, compile_args) ==
  ResolveFrom(ResolveInit, target_names, compile_args, 1)

(***************************************************************************)
(* The line patterns of the two extractors and the ANSI substitution.      *)
(***************************************************************************)
\* A pattern that ends in \n? and whose last atom cannot match a newline
\* matches s exactly when the pattern without \n? matches s less one
\* trailing newline.
Chomp(s) ==
  IF Len(s) > 0 /\ At(s, Len(s)) = "\n" THEN SubSeq(s, 1, Len(s) - 1) ELSE s

\* The ends b of  \S* target_name (\.\S*)?  when it starts at s[from].
TargetPathEnds(s, from, target_name) ==
  LET L == Len(target_name)
  IN  {b \in (from - 1)..Len(s) :
         \E a \in (from - 1)..(b - L) :
           /\ AllNonSpace(s, from, a)
           /\ SubSeq(s, a + 1, a + L) = target_name
           /\ \/ b = a + L
              \/ /\ b > a + L
                 /\ At(s, a + L + 1) = "."
                 /\ AllNonSpace(s, a + L + 2, b)}

\* re.fullmatch(clang_error_start_pattern, line)
clang_error_start_match(line, target_name) ==
  LET t == Chomp(line)
  IN  \E b \in TargetPathEnds(t, 1, target_name) :
        /\ DiagLocEnd(t, b + 1) # 0
        /\ SeverityEnds(t, DiagLocEnd(t, b + 1)) # {}

\* re.fullmatch(clang_include_error_pattern, line)
clang_include_error_match(line, target_name) ==
  LET t == Chomp(line)
  IN  /\ StartsWith(t, IncludePrefix)
      /\ \E b \in TargetPathEnds(t, Len(IncludePrefix) + 1, target_name) :
           /\ AfterColonNum(t, b + 1) = Len(t)
           /\ At(t, Len(t)) = ":"

\* re.fullmatch(clang_error_end_pattern, line)
clang_error_end_match(line) == diag_error_end_match(Chomp(line))

LinkerFailedText ==
  ": error: linker command failed with exit code 1 (use -v to see invocation)"

\* re.fullmatch(linker_error_end_pattern, line)
linker_error_end_match(line) ==
  LET t == Chomp(line)
      n == Len(t) - Len(LinkerFailedText)
  IN  /\ n >= Len("clang")
      /\ StartsWith(t, "clang")
      /\ From(t, n + 1) = LinkerFailedText
      /\ AllDot(t, 1, n)

\* The start test of extract_error_message.
IsStartLine(line, target_name) ==
  \/ StartsWith(line, linker_error_string)
  \/ StartsWith(line, llvm_linker_error_string)
  \/ clang_include_error_match(line, target_name)
  \/ clang_error_start_match(line, target_name)

\* The terminator test of extract_error_message.
IsEndLine(line) == linker_error_end_match(line) \/ clang_error_end_match(line)

\* re.fullmatch(clang_error_pattern, first_line):  clang.*: error: .*n?
clang_error_match(first_line) ==
  /\ StartsWith(first_line, "clang")
  /\ Contains(From(first_line, Len("clang") + 1), ": error: ")
  /\ AllDot(first_line, 1, Len(first_line))

\* Start of group 1 for each place where  clang(?:\+\+)?<space>  matches in t.
CommandArgStarts(t) ==
  {q \in 8..Len(t) :
     \/ SubSeq(t, q - 6, q - 1) = "clang "
     \/ q >= 10 /\ SubSeq(t, q - 8, q - 1) = "clang++ "}

\* re.fullmatch(command_pattern, line):  \[.*clang(?:\+\+)? (.*)\]\n?  The
\* greedy .* settles on the last place where clang and a space match.
command_match(line) ==
  LET t == Chomp(line)
  IN  IF /\ Len(t) >= 8
         /\ At(t, 1) = "["
         /\ At(t, Len(t)) = "]"
         /\ AllDot(t, 1, Len(t))
         /\ CommandArgStarts(t) # {}
      THEN [matched |-> TRUE,
            group1  |-> SubSeq(t, Max(CommandArgStarts(t)), Len(t) - 1)]
      ELSE [matched |-> FALSE, group1 |-> ""]

\* str.split(): the maximal runs of characters that are not whitespace.
RECURSIVE SplitFrom(_, _, _)
SplitFrom(s, i, start) ==
  IF i > Len(s)
  THEN IF start < i THEN <<SubSeq(s, start, i - 1)>> ELSE <<>>
  ELSE IF At(s, i) \in Whitespace
       THEN (IF start < i THEN <<SubSeq(s, start, i - 1)>> ELSE <<>>)
            \o SplitFrom(s, i + 1, i + 1)
       ELSE SplitFrom(s, i + 1, start)

split(s) == SplitFrom(s, 1, 1)

\* The escape character, \x1B.
ESC == ""

UpperCase ==
  {"A", "B", "C", "D", "E", "F", "G", "H", "I", "J", "K", "L", "M",
   "N", "O", "P", "Q", "R", "S", "T", "U", "V", "W", "X", "Y", "Z"}

LowerCase ==
  {"a", "b", "c", "d", "e", "f", "g", "h", "i", "j", "k", "l", "m",
   "n", "o", "p", "q", "r", "s", "t", "u", "v", "w", "x", "y", "z"}

\* [@-Z\\-_]
EscSingleBytes == {"@"} \cup UpperCase \cup {"\\", "]", "^", "_"}

\* [0-?]
EscParamBytes == Digits \cup {":", ";", "<", "=", ">", "?"}

\* [ -/]
EscInterBytes ==
  {" ", "!", "\"", "#", "$", "%", "&", "'", "(", ")", "*", "+", ",", "-", ".", "/"}

\* [@-~], less the grave accent, which no line of the model contains.
EscFinalBytes ==
  {"@"} \cup UpperCase \cup {"[", "\\", "]", "^", "_"} \cup LowerCase
  \cup {"{", "|", "}", "~"}

RECURSIVE RunEnd(_, _, _)
RunEnd(s, i, class) ==
  IF i <= Len(s) /\ At(s, i) \in class THEN RunEnd(s, i + 1, class) ELSE i

\* Index just after the escape sequence that starts at s[i], or 0 when the
\* pattern  \x1B([@-Z\\-_]|\[[0-?]*[ -/]*[@-~])  does not match there.  The
\* three classes of the second branch are disjoint, so its runs are maximal.
EscapeEnd(s, i) ==
  IF At(s, i) # ESC \/ i + 1 > Len(s) THEN 0
  ELSE IF At(s, i + 1) \in EscSingleBytes THEN i + 2
  ELSE IF At(s, i + 1) = "["
       THEN LET f == RunEnd(s, RunEnd(s, i + 2, EscParamBytes), EscInterBytes)
            IN  IF f <= Len(s) /\ At(s, f) \in EscFinalBytes THEN f + 1 ELSE 0
  ELSE 0

\* A slip in UncolorFrom: only the first match is removed, as count=1 does.
RECURSIVE UncolorFrom_FirstOnly(_, _)
UncolorFrom_FirstOnly(s, i) ==
  IF i > Len(s) THEN ""
  ELSE IF EscapeEnd(s, i) # 0 THEN From(s, EscapeEnd(s, i))
  ELSE At(s, i) \o UncolorFrom_FirstOnly(s, i + 1)

\* re.sub(pattern, '', line): the matches are removed from left to right.
RECURSIVE UncolorFrom(_, _)
UncolorFrom(s, i) ==
  IF i > Len(s) THEN ""
  ELSE IF EscapeEnd(s, i) # 0 THEN UncolorFrom(s, EscapeEnd(s, i))
  ELSE At(s, i) \o UncolorFrom(s, i + 1)

uncolored_line(line) == UncolorFrom(line, 1)

\* A slip in SanitizeLines: the line end is not stripped.
SanitizeLines_NoStrip(lines) == [k \in 1..Len(lines) |-> uncolored_line(lines[k])]

\* errors.append(uncolored_line.rstrip()) for each line of the range.
SanitizeLines(lines) == [k \in 1..Len(lines) |-> rstrip(uncolored_line(lines[k]))]

(***************************************************************************)
(* extract_error_message and get_jcc_errstr: the scans.  A range is the    *)
(* pair <<start, end>> of 0-based line indices, None when not yet found.   *)
(***************************************************************************)
None == -1

NoRange == <<None, None>>

\* log_lines[a:b], where None stands for an omitted bound.
Slice(lines, a, b) ==
  SubSeq(lines, (IF a = None THEN 0 ELSE a) + 1, IF b = None THEN Len(lines) ELSE b)

ScanInit == [error_lines_range |-> NoRange, temp_range |-> NoRange]

\* A slip in CloseRange: a range already sealed is kept, the first match wins.
CloseRange_FirstWins(x, i) ==
  IF x.error_lines_range[1] = None
  THEN [x EXCEPT !.error_lines_range = <<x.temp_range[1], i>>, !.temp_range = NoRange]
  ELSE [x EXCEPT !.temp_range = NoRange]

\* temp_range[1] = i; error_lines_range = temp_range; temp_range = [None, None]
CloseRange(x, i) ==
  [x EXCEPT !.error_lines_range = <<x.temp_range[1], i>>, !.temp_range = NoRange]

\* One iteration of the loop of extract_error_message, on line i (0-based).
ExtractLine(x, line, i, target_name) ==
  IF x.temp_range[1] = None /\ IsStartLine(line, target_name)
  THEN [x EXCEPT !.temp_range = <<i, None>>]
  ELSE IF x.temp_range[1] # None /\ IsEndLine(line)
       THEN CloseRange(x, i)
  ELSE x

\* A slip in ExtractReturn: a range still open at end of input is sealed there.
ExtractReturn_AutoSeal(x, lines) ==
  IF x.error_lines_range[1] = None /\ x.temp_range[1] = None
  THEN <<>>
  ELSE IF x.error_lines_range[1] = None
       THEN group_error_messages(
              SanitizeLines(Slice(lines, x.temp_range[1], Len(lines))))
  ELSE group_error_messages(
         SanitizeLines(Slice(lines, x.error_lines_range[1], x.error_lines_range[2])))

\* The statements of extract_error_message after the loop.
ExtractReturn(x, lines) ==
  IF x.error_lines_range[1] = None
  THEN <<>>
  ELSE group_error_messages(
         SanitizeLines(Slice(lines, x.error_lines_range[1], x.error_lines_range[2])))

RECURSIVE ExtractFrom(_, _, _, _)
ExtractFrom(x, lines, k, target_name) ==
  IF k > Len(lines) THEN ExtractReturn(x, lines)
  ELSE ExtractFrom(ExtractLine(x, lines[k], k - 1, target_name), lines, k + 1,
                   target_name)

\* extract_error_message on the lines of the file and the target basename.
extract_error_message(lines, basename_) ==
  ExtractFrom(ScanInit, lines, 1, splitext_root(basename_))

\* The initial target_names of get_jcc_errstr.
InitialTargetNames(basename_) ==
  <<basename_, "jcc-corrected-" \o basename_>>
  \o (IF splitext_ext(basename_) = ".c"
      THEN <<splitext_root(basename_) \o ".cpp",
             "jcc-corrected-" \o splitext_root(basename_) \o ".cpp">>
      ELSE <<>>)

JccInit(basename_) ==
  [error_lines_range |-> NoRange, temp_range |-> NoRange,
   target_names |-> InitialTargetNames(basename_), raised |-> FALSE]

\* A slip in FirstLineOk: a blank first line passes.
FirstLineOk_BlankPasses(line) == ~clang_error_match(rstrip(line))

\* first_line and not re.fullmatch(clang_error_pattern, first_line)
FirstLineOk(line) == rstrip(line) # "" /\ ~clang_error_match(rstrip(line))

\* A slip in JccCloseTemp: the range is not tested for being empty.
JccCloseTemp_EmptyKept(j, lines, i) ==
  IF j.temp_range[1] = None THEN j
  ELSE IF FirstLineOk(lines[j.temp_range[1] + 1])
       THEN [j EXCEPT !.error_lines_range = <<j.temp_range[1], i>>,
                      !.temp_range = NoRange]
  ELSE [j EXCEPT !.temp_range = NoRange]

\* A command line met while a temp range is open: the range is closed at i
\* and kept as the error range when it passes the first-line test.
JccCloseTemp(j, lines, i) ==
  IF j.temp_range[1] = None THEN j
  ELSE IF j.temp_range[1] < i /\ FirstLineOk(lines[j.temp_range[1] + 1])
       THEN [j EXCEPT !.error_lines_range = <<j.temp_range[1], i>>,
                      !.temp_range = NoRange]
  ELSE [j EXCEPT !.temp_range = NoRange]

\* The command is resolved against target_names; a match opens a temp range.
JccOpenTemp(j, i, compile_args) ==
  LET out == get_fuzz_target_compile_output(j.target_names, compile_args)
  IN  IF out.raised THEN [j EXCEPT !.raised = TRUE]
      ELSE IF j.temp_range[1] = None /\ out.value # ""
           THEN [j EXCEPT !.target_names = Append(@, out.value),
                          !.temp_range = <<i + 1, None>>]
      ELSE j

\* One iteration of the loop of get_jcc_errstr, on line i (0-based) of lines.
JccLine(j, lines, i) ==
  LET cm == command_match(lines[i + 1])
  IN  IF cm.matched
      THEN JccOpenTemp(JccCloseTemp(j, lines, i), i, split(cm.group1))
      ELSE j

\* The last error block is kept when it passes the first-line test.
JccFinalRange(j, lines) ==
  IF /\ j.temp_range[1] # None
     /\ j.temp_range[1] < Len(lines)
     /\ FirstLineOk(lines[j.temp_range[1] + 1])
  THEN <<j.temp_range[1], Len(lines)>>
  ELSE j.error_lines_range

\* The statements of get_jcc_errstr after the loop.
JccReturn(j, lines) ==
  IF j.error_lines_range[1] = None /\ j.temp_range[1] = None
  THEN <<>>
  ELSE LET r == JccFinalRange(j, lines)
       IN  group_error_messages(SanitizeLines(Slice(lines, r[1], r[2])))

RECURSIVE JccFrom(_, _, _)
JccFrom(j, lines, k) ==
  IF j.raised THEN [raised |-> TRUE, value |-> <<>>]
  ELSE IF k > Len(lines) THEN [raised |-> FALSE, value |-> JccReturn(j, lines)]
  ELSE JccFrom(JccLine(j, lines, k - 1), lines, k + 1)

\* get_jcc_errstr on the lines of the file and the target basename.
get_jcc_errstr(lines, basename_) == JccFrom(JccInit(basename_), lines, 1)

(***************************************************************************)
(* The inputs the functions are run on.                                    *)
(***************************************************************************)
MaxLines == 4

MaxLogLines == 4

MaxArgs == 4

MaxChars == 4

\* Lines handed to group_error_messages: sanitized, without line ends.
GroupLines ==
  {"",
   "t.c:1:1: error: x",
   "a.h:2:2: error: y",
   "t.c:1:1: note: n",
   "a.h:3:3: note: p: q",
   "In file included from t.c:1:",
   "1 error generated.",
   "/usr/bin/ld: undefined f",
   "/usr/bin/ld: DWARF error: invalid or unhandled FORM value: 0x25",
   "ld.lld: error: undefined symbol: g",
   linker_error_end_string,
   "clang++: error: linker command failed with exit code 1 (use -v to see invocation)",
   "foo"}

\* Lines of a build log, as readlines() gives them.
BuildLogLines ==
  {"t.c:1:1: error: x\n",
   "a.h:2:2: error: y\n",
   "In file included from t.c:1:\n",
   "/usr/bin/ld: undefined f\n",
   "/usr/bin/ld: DWARF error: invalid or unhandled FORM value: 0x25\n",
   "1 error generated.\n",
   "1 error generated." \o ESC \o "[0m\n",
   "clang-15: error: linker command failed with exit code 1 (use -v to see invocation)\n",
   "foo\n",
   "\n",
   "2 errors generated."}

BuildTargets == {"t.c"}

\* Lines of a jcc err.log.
TranscriptLines ==
  {"[clang -c t.c -o t.o]\n",
   "[clang++ t.o -o fuzzer]\n",
   "[clang -c u.c -o u.o]\n",
   "[clang -c t.c -o]\n",
   "[clang++ t.o -o]\n",
   "[clang++ -c t.cpp]",
   "t.c:1:1: error: x\n",
   "clang: error: no such file\n",
   "1 error generated.\n",
   "foo\n",
   "\n"}

TargetBasenames == {"t.c", "t.cpp"}

\* The characters of the lines given to the escape removal alone.
LineChars == {ESC, "[", "0", ";", " ", "m", "M", "x"}

ArgTokens ==
  {"-o", "--output", "--output=out/x.o", "-ox", "-c", "t.c", "src/t.c", "t.o", "u.c"}

CandidateLists == {<<"t.c">>, <<"t.c", "t.o">>}

\* The sequences over S of length at most n.
SeqsUpTo(S, n) == UNION {[1..k -> S] : k \in 0..n}

(***************************************************************************)
(* State.                                                                  *)
(***************************************************************************)
VARIABLES
  pc,                      \* "scan" in a loop, "done" after return, "raised"
  result,                  \* the list a grouper or extractor call returned
  error_lines,             \* group_error_messages: the lines read so far
  grp,                     \* group_error_messages: its locals
  log_lines,               \* extractors: the lines read so far
  project_target_basename, \* extractors: the target
  scan,                    \* extractors: error_lines_range, temp_range, ...
  target_names,            \* resolver: the candidate names
  compile_args,            \* resolver: the argument vector
  arg_i,                   \* resolver: 1-based position of the next argument
  res,                     \* resolver: its locals
  output,                  \* resolver: the returned name
  raw_line,                \* sanitizer: the line read so far
  uncolored                \* sanitizer: the line re.sub returned

vars ==
  <<pc, result, error_lines, grp, log_lines, project_target_basename, scan,
    target_names, compile_args, arg_i, res, output, raw_line, uncolored>>

groupVars == <<error_lines, grp>>

extractVars == <<log_lines, project_target_basename, scan>>

resolveVars == <<target_names, compile_args, arg_i, res, output>>

sanitizeVars == <<raw_line, uncolored>>

IdleGroup == error_lines = <<>> /\ grp = GroupInit

IdleExtract == log_lines = <<>> /\ project_target_basename = "" /\ scan = ScanInit

IdleResolve ==
  /\ target_names = <<>>
  /\ compile_args = <<>>
  /\ arg_i = 1
  /\ res = ResolveInit
  /\ output = ""

IdleSanitize == raw_line = "" /\ uncolored = ""

(***************************************************************************)
(* group_error_messages run on every sequence of lines.                    *)
(***************************************************************************)
InitGroup ==
  /\ pc = "scan"
  /\ result = <<>>
  /\ IdleGroup
  /\ IdleExtract
  /\ IdleResolve
  /\ IdleSanitize

\* The loop takes the next line of error_lines.
GroupStep ==
  /\ pc = "scan"
  /\ Len(error_lines) < MaxLines
  /\ \E line \in GroupLines :
       /\ error_lines' = Append(error_lines, line)
       /\ grp' = GroupLine(grp, line)
  /\ UNCHANGED <<pc, result, extractVars, resolveVars, sanitizeVars>>

\* error_lines is exhausted: the function returns error_blocks.
GroupReturn ==
  /\ pc = "scan"
  /\ pc' = "done"
  /\ result' = GroupFinish(grp)
  /\ UNCHANGED <<groupVars, extractVars, resolveVars, sanitizeVars>>

NextGroup == GroupStep \/ GroupReturn

SpecGroup == InitGroup /\ [][NextGroup]_vars

(***************************************************************************)
(* extract_error_message run on every build log.                           *)
(***************************************************************************)
InitExtract ==
  /\ pc = "scan"
  /\ result = <<>>
  /\ IdleGroup
  /\ IdleResolve
  /\ IdleSanitize
  /\ log_lines = <<>>
  /\ project_target_basename \in BuildTargets
  /\ scan = ScanInit

\* readlines(): only the last line of a file may lack its line end.
CanFollow(lines, line) ==
  IF Len(lines) = 0 THEN TRUE
  ELSE At(lines[Len(lines)], Len(lines[Len(lines)])) = "\n"

ExtractStep ==
  /\ pc = "scan"
  /\ Len(log_lines) < MaxLogLines
  /\ \E line \in BuildLogLines :
       /\ CanFollow(log_lines, line)
       /\ log_lines' = Append(log_lines, line)
       /\ scan' = ExtractLine(scan, line, Len(log_lines),
                              splitext_root(project_target_basename))
  /\ UNCHANGED <<pc, result, project_target_basename, groupVars, resolveVars, sanitizeVars>>

ExtractDone ==
  /\ pc = "scan"
  /\ pc' = "done"
  /\ result' = ExtractReturn(scan, log_lines)
  /\ UNCHANGED <<extractVars, groupVars, resolveVars, sanitizeVars>>

NextExtract == ExtractStep \/ ExtractDone

SpecExtract == InitExtract /\ [][NextExtract]_vars

(***************************************************************************)
(* get_jcc_errstr run on every transcript.                                 *)
(***************************************************************************)
InitJcc ==
  /\ pc = "scan"
  /\ result = <<>>
  /\ IdleGroup
  /\ IdleResolve
  /\ IdleSanitize
  /\ log_lines = <<>>
  /\ project_target_basename \in TargetBasenames
  /\ scan = JccInit(project_target_basename)

JccStep ==
  /\ pc = "scan"
  /\ Len(log_lines) < MaxLogLines
  /\ \E line \in TranscriptLines :
       /\ CanFollow(log_lines, line)
       /\ log_lines' = Append(log_lines, line)
       /\ scan' = JccLine(scan, Append(log_lines, line), Len(log_lines))
       /\ pc' = IF scan'.raised THEN "raised" ELSE "scan"
  /\ UNCHANGED <<result, project_target_basename, groupVars, resolveVars, sanitizeVars>>

JccDone ==
  /\ pc = "scan"
  /\ pc' = "done"
  /\ result' = JccReturn(scan, log_lines)
  /\ UNCHANGED <<extractVars, groupVars, resolveVars, sanitizeVars>>

NextJcc == JccStep \/ JccDone

SpecJcc == InitJcc /\ [][NextJcc]_vars

(***************************************************************************)
(* Either extractor run on every log.                                      *)
(***************************************************************************)
\* The scan in progress is that of get_jcc_errstr: it keeps target_names.
IsJccScan == "target_names" \in DOMAIN scan

InitScans == InitExtract \/ InitJcc

NextScans == (~IsJccScan /\ NextExtract) \/ (IsJccScan /\ NextJcc)

SpecScans == InitScans /\ [][NextScans]_vars

(***************************************************************************)
(* get_fuzz_target_compile_output run on every argument vector.            *)
(***************************************************************************)
InitResolve ==
  /\ pc = "scan"
  /\ result = <<>>
  /\ IdleGroup
  /\ IdleExtract
  /\ IdleSanitize
  /\ target_names \in CandidateLists
  /\ compile_args \in SeqsUpTo(ArgTokens, MaxArgs)
  /\ arg_i = 1
  /\ res = ResolveInit
  /\ output = ""

ResolveStep ==
  /\ pc = "scan"
  /\ arg_i <= Len(compile_args)
  /\ res' = ResolveArg(res, target_names, compile_args, arg_i)
  /\ arg_i' = arg_i + 1
  /\ pc' = IF res'.raised THEN "raised" ELSE "scan"
  /\ UNCHANGED <<result, output, target_names, compile_args, groupVars, extractVars, sanitizeVars>>

ResolveDone ==
  /\ pc = "scan"
  /\ arg_i > Len(compile_args)
  /\ pc' = "done"
  /\ output' = ResolveResult(res, compile_args)
  /\ UNCHANGED <<result, res, arg_i, target_names, compile_args, groupVars, extractVars, sanitizeVars>>

NextResolve == ResolveStep \/ ResolveDone

SpecResolve == InitResolve /\ [][NextResolve]_vars

(***************************************************************************)
(* The escape removal of lines 315 and 370 run on every line.              *)
(***************************************************************************)
InitSanitize ==
  /\ pc = "scan"
  /\ result = <<>>
  /\ IdleGroup
  /\ IdleExtract
  /\ IdleResolve
  /\ IdleSanitize

\* The line is any text over LineChars of at most MaxChars characters.
SanitizeRead ==
  /\ pc = "scan"
  /\ Len(raw_line) < MaxChars
  /\ \E c \in LineChars : raw_line' = raw_line \o c
  /\ UNCHANGED <<pc, result, uncolored, groupVars, extractVars, resolveVars>>

\* uncolored_line = re.sub(pattern, '', line)
SanitizeApply ==
  /\ pc = "scan"
  /\ pc' = "done"
  /\ uncolored' = uncolored_line(raw_line)
  /\ UNCHANGED <<result, raw_line, groupVars, extractVars, resolveVars>>

NextSanitize == SanitizeRead \/ SanitizeApply

SpecSanitize == InitSanitize /\ [][NextSanitize]_vars

(***************************************************************************)
(* Properties of group_error_messages.                                     *)
(***************************************************************************)
\* C1: every string in the list group_error_messages returns is non-empty:
\* no sealing step pushes a block of zero lines.
C1_NoEmptyBlock ==
  /\ \A k \in 1..Len(grp.error_blocks) : grp.error_blocks[k] # ""
  /\ \A k \in 1..Len(result) : result[k] # ""

(***************************************************************************)
(* Properties of get_jcc_errstr.                                           *)
(***************************************************************************)
\* C2: when no temp range was promoted to error_lines_range, in the loop or
\* at end of input, get_jcc_errstr returns the empty list.
C2_NotFoundReturnsEmpty ==
  (pc = "done" /\ JccFinalRange(scan, log_lines)[1] = None) => result = <<>>

\* C3: get_jcc_errstr returns for every log; no command line makes it raise.
C3_NeverRaises == pc # "raised"

(***************************************************************************)
(* Properties of extract_error_message.                                    *)
(***************************************************************************)
\* The start-pattern lines and the terminator lines of the logs, per target.
StartLinesOf ==
  [b \in BuildTargets |-> {l \in BuildLogLines : IsStartLine(l, splitext_root(b))}]

EndLines == {l \in BuildLogLines : IsEndLine(l)}

\* Line k (0-based) of the log read so far is a start-pattern line.
StartAt(k) == log_lines[k + 1] \in StartLinesOf[project_target_basename]

\* Line k (0-based) of the log read so far is a terminator line.
EndAt(k) == log_lines[k + 1] \in EndLines

LineIndices == 0..(Len(log_lines) - 1)

\* The ranges closed so far: s is the first start line since the previous
\* closing terminator (every earlier start line has a terminator between it
\* and s), and e is the first terminator after s.
ClosedRanges ==
  {r \in LineIndices \X LineIndices :
     /\ r[1] < r[2]
     /\ StartAt(r[1])
     /\ EndAt(r[2])
     /\ \A t \in (r[1] + 1)..(r[2] - 1) : ~EndAt(t)
     /\ \A k \in 0..(r[1] - 1) :
          StartAt(k) => \E t \in (k + 1)..(r[1] - 1) : EndAt(t)}

LastClosedRange == CHOOSE r \in ClosedRanges : \A q \in ClosedRanges : q[2] <= r[2]

\* C4: the sealed range is the closed range with the last terminator; earlier
\* sealed ranges are overwritten, a range still open at end of input never
\* replaces it, and the lines returned are the lines of that range.
C4_LastClosedRangeWins ==
  /\ scan.error_lines_range =
       (IF ClosedRanges = {} THEN NoRange ELSE LastClosedRange)
  /\ (pc = "done" /\ ClosedRanges # {}) =>
       result = group_error_messages(
                  SanitizeLines(SubSeq(log_lines, LastClosedRange[1] + 1,
                                       LastClosedRange[2])))

\* C4 witness: two ranges were closed, the second replaced the first.
C4_Witness ==
  /\ pc = "done"
  /\ Cardinality(ClosedRanges) = 2
  /\ scan.error_lines_range = <<2, 3>>

\* Some start-pattern line is followed later by a terminator line.
StartThenEnd == \E k \in LineIndices : \E t \in LineIndices : k < t /\ StartAt(k) /\ EndAt(t)

\* C5: no range is sealed exactly when no start line is followed by a
\* terminator, and then extract_error_message returns the empty list.
C5_NoRangeReturnsEmpty ==
  /\ (scan.error_lines_range[1] = None) <=> ~StartThenEnd
  /\ (pc = "done" /\ ~StartThenEnd) => result = <<>>

\* C5 witness: a range was opened, never terminated, and nothing is returned.
C5_Witness ==
  /\ pc = "done"
  /\ Len(log_lines) >= 2
  /\ StartAt(0)
  /\ scan.temp_range[1] = 0
  /\ result = <<>>

(***************************************************************************)
(* Properties of get_fuzz_target_compile_output.                           *)
(***************************************************************************)
IsExactOutputFlag(arg) == arg = "-o" \/ arg = "--output"

\* The result policy read with the operand of an exact -o or --output taken
\* as the output name and passed over, and a flag without operand skipped.
RECURSIVE PolicyScan(_, _, _, _, _)
PolicyScan(names, args, i, output_name, target_found) ==
  IF i > Len(args) THEN [output_name |-> output_name, target_found |-> target_found]
  ELSE IF IsExactOutputFlag(args[i])
       THEN IF i + 1 <= Len(args)
            THEN PolicyScan(names, args, i + 2, args[i + 1], target_found)
            ELSE PolicyScan(names, args, i + 1, output_name, target_found)
  ELSE IF StartsWith(args[i], "--output=")
       THEN PolicyScan(names, args, i + 1, From(args[i], 10), target_found)
  ELSE IF StartsWith(args[i], "-o")
       THEN PolicyScan(names, args, i + 1, From(args[i], 3), target_found)
  ELSE IF StartsWith(args[i], "-") \/ args[i] = output_name
       THEN PolicyScan(names, args, i + 1, output_name, target_found)
  ELSE IF \E k \in 1..Len(names) : names[k] = basename(args[i])
       THEN PolicyScan(names, args, i + 1, output_name, basename(args[i]))
  ELSE PolicyScan(names, args, i + 1, output_name, target_found)

PolicyResult(names, args) ==
  LET p == PolicyScan(names, args, 1, "", "")
  IN  IF p.target_found = "" THEN ""
      ELSE IF p.output_name # "" THEN basename(p.output_name)
      ELSE IF \E k \in 1..Len(args) : args[k] = "-c"
           THEN splitext_root(p.target_found) \o ".o"
      ELSE "a.out"

\* C6: for every argument vector and candidate set the call returns, and
\* returns "" without a candidate positional token, else the basename of the
\* last explicit output name, else <target_stem>.o under -c, else a.out.
C6_ResultPolicy ==
  pc \in {"done", "raised"} =>
    (pc = "done" /\ output = PolicyResult(target_names, compile_args))

\* Token i is the operand of an exact -o or --output that is itself no operand.
RECURSIVE IsOperand(_, _)
IsOperand(args, i) ==
  i > 1 /\ IsExactOutputFlag(args[i - 1]) /\ ~IsOperand(args, i - 1)

\* C7: the token after an exact -o or --output is only the output name: the
\* scan passes over it, it is not read as a flag, an output option or a target.
C7_OperandPassedOver ==
  [][(pc = "scan" /\ arg_i <= Len(compile_args) /\ IsOperand(compile_args, arg_i))
       => (/\ res'.output_name = compile_args[arg_i]
           /\ res'.target_found = res.target_found)]_vars

(***************************************************************************)
(* More properties of group_error_messages.                                *)
(***************************************************************************)
\* The kinds of the lines given to the grouper.
DiagOf == [l \in GroupLines |-> diag_match(l)]

TerminatorLines ==
  {l \in GroupLines : diag_error_end_match(l) \/ StartsWith(l, linker_error_end_string)}

NoteLines == {l \in GroupLines : DiagOf[l].matched /\ DiagOf[l].severity = "note"}

PlainDiagLines ==
  {l \in GroupLines : DiagOf[l].matched /\ DiagOf[l].severity # "note"} \ TerminatorLines

IncludeOf == [l \in GroupLines |-> include_match(l)]

IncludeLines == {l \in GroupLines : IncludeOf[l].matched}

\* The step reads line l.
Reads(l) == error_lines' = Append(error_lines, l)

\* A note line is appended and nothing else changes.
C8_NoteStep ==
  \A l \in NoteLines :
    Reads(l) => grp' = [grp EXCEPT !.curr_block = Append(grp.curr_block, l)]

\* A diagnostic, its notes and a terminator give one block without the terminator.
C8_OneBlock ==
  (/\ pc = "done"
   /\ Len(error_lines) >= 2
   /\ error_lines[1] \in PlainDiagLines
   /\ \A k \in 2..(Len(error_lines) - 1) : error_lines[k] \in NoteLines
   /\ error_lines[Len(error_lines)] \in TerminatorLines)
  => result = <<Join(SubSeq(error_lines, 1, Len(error_lines) - 1))>>

\* C8: a diagnostic line of severity note (group 2 of the diagnostic pattern
\* is exactly "note") is appended to the current block in every state and
\* seals nothing, leaves the state and the include source; a diagnostic, its
\* notes and a terminator yield exactly one block.
C8_NoteContinues == []C8_OneBlock /\ [][C8_NoteStep]_vars

\* C8 witness: the diagnostic with two notes and a terminator, in one block.
C8_Witness ==
  /\ pc = "done"
  /\ Len(error_lines) = 4
  /\ error_lines[1] \in PlainDiagLines
  /\ error_lines[2] \in NoteLines
  /\ error_lines[3] \in NoteLines
  /\ error_lines[4] \in TerminatorLines
  /\ Len(result) = 1

\* In INCLUDE a diagnostic of another file joins the block; a diagnostic of
\* the include source seals the block and starts the next one in DIAG.
C9_IncludeStep ==
  \A l \in PlainDiagLines :
    (grp.curr_state = state_include /\ Reads(l)) =>
      IF DiagOf[l].err_src # grp.src_file
      THEN grp' = [grp EXCEPT !.curr_block = Append(grp.curr_block, l)]
      ELSE grp' = [grp EXCEPT !.error_blocks = Append(@, Join(grp.curr_block)),
                              !.curr_block = <<l>>,
                              !.curr_state = state_diag]

\* error_lines is an include line, a diagnostic of another file and a
\* diagnostic of the include source.
IncludeChainInput ==
  /\ Len(error_lines) = 3
  /\ error_lines[1] \in IncludeLines
  /\ error_lines[2] \in PlainDiagLines
  /\ error_lines[3] \in PlainDiagLines
  /\ DiagOf[error_lines[2]].err_src # IncludeOf[error_lines[1]].src_file
  /\ DiagOf[error_lines[3]].err_src = IncludeOf[error_lines[1]].src_file

C9_TwoBlocks ==
  (pc = "done" /\ IncludeChainInput) =>
    result = <<Join(SubSeq(error_lines, 1, 2)), error_lines[3]>>

\* C9: in INCLUDE a non-note diagnostic of a differing file is appended
\* without sealing and without leaving INCLUDE, one of the remembered include
\* source seals the block and starts a new one in DIAG; include line,
\* differing-file diagnostic, own-file diagnostic yield exactly two blocks.
C9_NestedInclude == []C9_TwoBlocks /\ [][C9_IncludeStep]_vars

\* C9 witness: the three lines were grouped into the two blocks.
C9_Witness == pc = "done" /\ IncludeChainInput /\ Len(result) = 2

(***************************************************************************)
(* Extraction and grouping run again on their own output.                  *)
(***************************************************************************)
\* The lines of the returned blocks, in order.
RECURSIVE BlockLines(_)
BlockLines(blocks) ==
  IF blocks = <<>> THEN <<>>
  ELSE SplitLines(Head(blocks)) \o BlockLines(Tail(blocks))

\* The same lines as the lines of a log file.
AsLogLines(lines) == [k \in 1..Len(lines) |-> lines[k] \o "\n"]

\* One start line, its content, one terminator.
WellFormedSingle ==
  /\ Len(log_lines) >= 2
  /\ StartAt(0)
  /\ EndAt(Len(log_lines) - 1)
  /\ \A k \in 0..(Len(log_lines) - 2) : ~EndAt(k)

\* C10 as stated: the lines of the returned blocks, put through the same
\* extraction and grouping, give the same blocks.
C10_ExtractAgain ==
  (pc = "done" /\ WellFormedSingle) =>
    extract_error_message(AsLogLines(BlockLines(result)), project_target_basename)
      = result

\* The sanitized lines that are terminators or linker lines for either scan.
SanitizedOf == [l \in BuildLogLines |-> rstrip(uncolored_line(l))]

SpecialWhenSanitized ==
  {l \in BuildLogLines :
     \/ diag_error_end_match(SanitizedOf[l])
     \/ StartsWith(SanitizedOf[l], linker_error_end_string)
     \/ IsEndLine(SanitizedOf[l])
     \/ IsLinkerLine(SanitizedOf[l])}

\* A well-formed single-error log of compiler diagnostics: before the
\* terminator no line is, once sanitized, a terminator or a linker line.
WellFormedDiagSingle ==
  /\ WellFormedSingle
  /\ \A k \in 0..(Len(log_lines) - 2) : log_lines[k + 1] \notin SpecialWhenSanitized

\* C10 amended: on such a log the lines of the returned blocks, put through
\* the grouping again, give the same blocks; put through the extraction they
\* give the empty list, the terminator not being among them.
C10_GroupAgain ==
  (pc = "done" /\ WellFormedDiagSingle) =>
    /\ group_error_messages(BlockLines(result)) = result
    /\ extract_error_message(AsLogLines(BlockLines(result)),
                             project_target_basename) = <<>>

\* C10 witness: a start line, two content lines and the terminator were
\* extracted and grouped.
C10_Witness ==
  /\ pc = "done"
  /\ WellFormedDiagSingle
  /\ Len(log_lines) = 4
  /\ Len(result) >= 2


(***************************************************************************)
(* Claims on get_jcc_errstr: the command lines of a transcript.            *)
(***************************************************************************)
CommandOf == [l \in TranscriptLines |-> command_match(l)]

CommandLines == {l \in TranscriptLines : CommandOf[l].matched}

ArgsOf == [l \in CommandLines |-> split(CommandOf[l].group1)]

\* The output name a command line resolves to under names, "" for none and
\* for a command on which the resolver raises.
ResolvedName(names, l) ==
  LET out == get_fuzz_target_compile_output(names, ArgsOf[l])
  IN  IF out.raised THEN "" ELSE out.value

\* The target names known after the first k lines of the log.
RECURSIVE NamesAfter(_)
NamesAfter(k) ==
  IF k = 0 THEN InitialTargetNames(project_target_basename)
  ELSE LET names == NamesAfter(k - 1)
       IN  IF /\ log_lines[k] \in CommandLines
              /\ ResolvedName(names, log_lines[k]) # ""
           THEN Append(names, ResolvedName(names, log_lines[k]))
           ELSE names

\* Line k (1-based) is a command line that resolves to a non-empty output.
MatchingCommandAt(k) ==
  /\ log_lines[k] \in CommandLines
  /\ ResolvedName(NamesAfter(k - 1), log_lines[k]) # ""

\* The range <<a, b>> is [i+1, j): line i is a matching command line, no
\* command line lies inside, and j is a command line or the end of the log.
AfterCommandRange(r) ==
  /\ r[1] >= 1
  /\ MatchingCommandAt(r[1])
  /\ \A k \in (r[1] + 1)..r[2] : log_lines[k] \notin CommandLines
  /\ \/ r[2] = Len(log_lines)
     \/ log_lines[r[2] + 1] \in CommandLines

\* The 1-based indices of the lines get_jcc_errstr passes to the grouper.
GroupedIndices ==
  LET r == JccFinalRange(scan, log_lines)
  IN  ((IF r[1] = None THEN 0 ELSE r[1]) + 1)
        ..(IF r[2] = None THEN Len(log_lines) ELSE r[2])

CallsGrouper ==
  pc = "done" /\ ~(scan.error_lines_range[1] = None /\ scan.temp_range[1] = None)

\* C11: a range promoted to error_lines_range is [i+1, j) with line i a
\* command line whose resolved output is non-empty and j the next command
\* line or the end of the log; so the lines passed to the grouper include no
\* command line and no line at or before the first matching command line.
C11_RangeAfterCommand ==
  pc # "raised" =>
    /\ scan.error_lines_range # NoRange => AfterCommandRange(scan.error_lines_range)
    /\ CallsGrouper =>
         /\ JccFinalRange(scan, log_lines) # NoRange =>
              AfterCommandRange(JccFinalRange(scan, log_lines))
         /\ \A k \in GroupedIndices :
              /\ log_lines[k] \notin CommandLines
              /\ \E m \in 1..(k - 1) : MatchingCommandAt(m)

(***************************************************************************)
(* Claims on the escape removal.                                           *)
(***************************************************************************)
\* Position f closes a sequence ESC [ ... that starts at s[i]: parameter
\* bytes, then intermediate bytes, then the final byte at f.
CsiFinalAt(s, i, f) ==
  /\ At(s, f) \in EscFinalBytes
  /\ \E p \in (i + 2)..f :
       /\ \A k \in (i + 2)..(p - 1) : At(s, k) \in EscParamBytes
       /\ \A k \in p..(f - 1) : At(s, k) \in EscInterBytes

\* An occurrence of the escape grammar starts at s[i].
IsEscapeAt(s, i) ==
  /\ At(s, i) = ESC
  /\ i + 1 <= Len(s)
  /\ \/ At(s, i + 1) \in EscSingleBytes
     \/ At(s, i + 1) = "[" /\ \E f \in (i + 2)..Len(s) : CsiFinalAt(s, i, f)

HasEscape(s) == \E i \in 1..Len(s) : IsEscapeAt(s, i)

\* The last position of the occurrence that starts at s[i].
LastOfEscape(s, i) ==
  IF At(s, i + 1) \in EscSingleBytes THEN i + 1
  ELSE CHOOSE f \in (i + 2)..Len(s) : CsiFinalAt(s, i, f)

InsideEscape(s, k) ==
  \E i \in 1..k : IsEscapeAt(s, i) /\ k <= LastOfEscape(s, i)

\* s without the characters that lie inside an occurrence.
RECURSIVE OutsideEscapes(_, _)
OutsideEscapes(s, k) ==
  IF k > Len(s) THEN ""
  ELSE (IF InsideEscape(s, k) THEN "" ELSE At(s, k)) \o OutsideEscapes(s, k + 1)

EveryEscStartsEscape(s) ==
  \A i \in 1..Len(s) : At(s, i) = ESC => IsEscapeAt(s, i)

\* C12 as stated: the output of the escape removal contains no occurrence of
\* the escape grammar, equals the input when the input contains none, and
\* is unchanged by a second removal.
C12_NoEscapeRemains ==
  pc = "done" =>
    /\ ~HasEscape(uncolored)
    /\ ~HasEscape(raw_line) => uncolored = raw_line
    /\ uncolored_line(uncolored) = uncolored

\* C12, amended: the output is the input without the characters of its
\* occurrences of the escape grammar, every other character kept in place
\* and order, so it equals the input when the input contains none; when
\* every ESC of the input starts an occurrence the output contains no
\* occurrence and a second removal changes nothing.
C12_OccurrencesRemoved ==
  pc = "done" =>
    /\ uncolored = OutsideEscapes(raw_line, 1)
    /\ ~HasEscape(raw_line) => uncolored = raw_line
    /\ EveryEscStartsEscape(raw_line) =>
         /\ ~HasEscape(uncolored)
         /\ uncolored_line(uncolored) = uncolored

C12_Witness ==
  /\ pc = "done"
  /\ HasEscape(raw_line)
  /\ EveryEscStartsEscape(raw_line)
  /\ uncolored # ""
  /\ uncolored # raw_line

(***************************************************************************)
(* Claims on group_error_messages: what becomes of each line.              *)
(***************************************************************************)
LinkerPrefixes == {linker_error_string, llvm_linker_error_string}

LinkerLines ==
  {l \in GroupLines : \E p \in LinkerPrefixes : StartsWith(l, p)} \ TerminatorLines

DwarfLines == {l \in LinkerLines : Contains(l, dwarf_error_string)}

\* Neither blank, diagnostic, include, terminator nor linker line.
UnclassifiedLines ==
  {l \in GroupLines : l # "" /\ ~DiagOf[l].matched}
    \ (IncludeLines \cup TerminatorLines \cup LinkerLines)

\* The text of l past its linker prefix.
PastLinkerPrefix(l) ==
  LET p == CHOOSE q \in LinkerPrefixes : StartsWith(l, q)
  IN  SubSeq(l, Len(p) + 1, Len(l))

\* What the blocks are to hold of line l: nothing of a blank line, a
\* terminator line or a DWARF-marked linker line, a linker line without its
\* prefix, any other line as it is.
KeptOf ==
  [l \in GroupLines |->
     IF l = "" \/ l \in TerminatorLines \/ l \in DwarfLines THEN <<>>
     ELSE IF l \in LinkerLines THEN <<PastLinkerPrefix(l)>>
     ELSE <<l>>]

RECURSIVE KeptLines(_)
KeptLines(lines) ==
  IF lines = <<>> THEN <<>> ELSE KeptOf[Head(lines)] \o KeptLines(Tail(lines))

\* The lines of the blocks, in order; a block of no lines, "", has none.
RECURSIVE ContentLines(_)
ContentLines(blocks) ==
  IF blocks = <<>> THEN <<>>
  ELSE (IF Head(blocks) = "" THEN <<>> ELSE SplitLines(Head(blocks)))
         \o ContentLines(Tail(blocks))

\* The blocks that hold a line.  No line holds a line end and no kept line
\* is empty, so the blocks joined by line ends are their lines joined by
\* line ends: equal texts are equal sequences of lines.
NonEmptyBlocks(blocks) == SelectSeq(blocks, LAMBDA b : b # "")

\* C13: the grouper neither loses, duplicates nor reorders content: the
\* lines of the blocks, sealed and current, in order, are the lines read so
\* far, in order, less the blank lines, the terminator lines and the
\* DWARF-marked linker lines, and with the linker prefix removed; the same
\* holds of the list returned.
C13_ContentPreserved ==
  /\ Join(NonEmptyBlocks(grp.error_blocks) \o grp.curr_block)
       = Join(KeptLines(error_lines))
  /\ pc = "done" => Join(NonEmptyBlocks(result)) = Join(KeptLines(error_lines))

C13_Witness ==
  /\ pc = "done"
  /\ \E k \in 1..Len(error_lines) : error_lines[k] = ""
  /\ \E k \in 1..Len(error_lines) : error_lines[k] \in TerminatorLines
  /\ \E k \in 1..Len(error_lines) : error_lines[k] \in DwarfLines
  /\ \E k \in 1..Len(error_lines) : error_lines[k] \in LinkerLines \ DwarfLines
  /\ ContentLines(result) # <<>>

\* The terminator lines as extract_error_message recognises them.
ExtractorTerminators == {l \in GroupLines : IsEndLine(l)}

\* A terminator line seals the current block, sets the state to UNKNOWN and
\* is not appended.
C14_TerminatorStep ==
  \A l \in ExtractorTerminators :
    Reads(l) =>
      /\ grp'.curr_state = state_unknown
      /\ grp'.curr_block = <<>>
      /\ ContentLines(grp'.error_blocks)
           = ContentLines(grp.error_blocks) \o grp.curr_block

C14_NoTerminatorKept ==
  /\ \A k \in 1..Len(grp.curr_block) : grp.curr_block[k] \notin ExtractorTerminators
  /\ \A k \in 1..Len(grp.error_blocks) :
       \A t \in ExtractorTerminators : ~Contains(grp.error_blocks[k], t)
  /\ \A k \in 1..Len(result) :
       \A t \in ExtractorTerminators : ~Contains(result[k], t)

\* C14: a line that is a diagnostic terminator or the linker terminator
\* message, as extract_error_message recognises them, seals the current
\* block, resets the state to UNKNOWN and is not appended: no block ever
\* contains a terminator line.
C14_TerminatorSeals == []C14_NoTerminatorKept /\ [][C14_TerminatorStep]_vars

\* The number of unclassified lines among lines.
RECURSIVE UnclassifiedCount(_)
UnclassifiedCount(lines) ==
  IF lines = <<>> THEN 0
  ELSE (IF Head(lines) \in UnclassifiedLines THEN 1 ELSE 0)
         + UnclassifiedCount(Tail(lines))

\* In UNKNOWN an unclassified line seals the block that is not empty and
\* starts a block of its own.
C15_UnknownStep ==
  \A l \in UnclassifiedLines :
    (Reads(l) /\ grp.curr_state = state_unknown) =>
      /\ grp'.curr_block = <<l>>
      /\ grp'.curr_state = state_unknown
      /\ grp'.error_blocks =
           IF grp.curr_block = <<>> THEN grp.error_blocks
           ELSE Append(grp.error_blocks, Join(grp.curr_block))

\* Input that keeps the state UNKNOWN: unclassified lines and notes only.
OnlyUnclassifiedAndNotes ==
  \A k \in 1..Len(error_lines) : error_lines[k] \in UnclassifiedLines \cup NoteLines

C15_OneLineBlocks ==
  /\ grp.curr_state = state_unknown => UnclassifiedCount(grp.curr_block) <= 1
  /\ (pc = "done" /\ OnlyUnclassifiedAndNotes) =>
       \A k \in 1..Len(result) : UnclassifiedCount(SplitLines(result[k])) <= 1
  /\ (pc = "done" /\ UnclassifiedCount(error_lines) = Len(error_lines)) =>
       result = error_lines

\* C15: while the state is UNKNOWN two unclassified lines never end up in
\* the same block: a run of k unclassified lines gives k blocks of one line
\* each, and only note lines may be appended to such a block.
C15_UnknownLinesApart == []C15_OneLineBlocks /\ [][C15_UnknownStep]_vars

C15_Witness ==
  /\ pc = "done"
  /\ Len(error_lines) >= 3
  /\ UnclassifiedCount(error_lines) = Len(error_lines)
  /\ error_lines[1] # error_lines[2]
  /\ Len(result) = Len(error_lines)

\* A linker-prefixed line seals the block that is not empty and sets the
\* state to LD; a DWARF-marked line is dropped, any other starts the new
\* block with the text past its prefix.
C16_LinkerStep ==
  \A l \in LinkerLines :
    Reads(l) =>
      /\ grp'.curr_state = state_ld
      /\ grp'.error_blocks =
           IF grp.curr_block = <<>> THEN grp.error_blocks
           ELSE Append(grp.error_blocks, Join(grp.curr_block))
      /\ grp'.curr_block =
           IF l \in DwarfLines THEN <<>> ELSE <<PastLinkerPrefix(l)>>
      /\ grp'.src_file = grp.src_file

\* In LD an unclassified line is appended to the current block.
C16_LdAppendStep ==
  \A l \in UnclassifiedLines :
    (Reads(l) /\ grp.curr_state = state_ld) =>
      grp' = [grp EXCEPT !.curr_block = Append(@, l)]

\* A linker line followed by unclassified lines only.
LinkerThenUnclassified ==
  /\ error_lines # <<>>
  /\ Head(error_lines) \in LinkerLines
  /\ UnclassifiedCount(Tail(error_lines)) = Len(error_lines) - 1

C16_OneLinkerBlock ==
  (pc = "done" /\ LinkerThenUnclassified) =>
    LET kept == KeptOf[Head(error_lines)] \o Tail(error_lines)
    IN  result = IF kept = <<>> THEN <<>> ELSE <<Join(kept)>>

\* C16: every linker-prefixed line seals the current block that is not empty
\* and sets the state to LD; a DWARF-marked one is dropped, any other is
\* appended without its prefix as the first line of the new block, and the
\* unclassified lines that follow are appended to that same block.
C16_LinkerBlock ==
  /\ []C16_OneLinkerBlock
  /\ [][C16_LinkerStep /\ C16_LdAppendStep]_vars

C16_Witness ==
  /\ pc = "done"
  /\ LinkerThenUnclassified
  /\ Head(error_lines) \notin DwarfLines
  /\ Len(error_lines) >= 3
  /\ Len(result) = 1

(***************************************************************************)
(* Claims on get_jcc_errstr: which temp range becomes the error range.     *)
(***************************************************************************)
\* The clang driver error lines, 'clang...: error: ...'.
DriverErrorLines == {l \in TranscriptLines : clang_error_match(rstrip(l))}

BlankLines == {l \in TranscriptLines : rstrip(l) = ""}

\* The first command line after line k (1-based), 0 when there is none.
NextCommandAfter(k) ==
  LET later == {m \in (k + 1)..Len(log_lines) : log_lines[m] \in CommandLines}
  IN  IF later = {} THEN 0 ELSE CHOOSE m \in later : \A n \in later : m <= n

\* The matching command lines whose temp range, closed by a later command
\* line, is not empty and has a first line outside rejected.
ClosedPassing(rejected) ==
  {k \in 1..Len(log_lines) :
     /\ MatchingCommandAt(k)
     /\ NextCommandAfter(k) > k + 1
     /\ log_lines[k + 1] \notin rejected}

\* The last matching command line when its temp range, open at the end of
\* the log, is not empty and has a first line outside rejected.
OpenPassing(rejected) ==
  {k \in 1..(Len(log_lines) - 1) :
     /\ MatchingCommandAt(k)
     /\ NextCommandAfter(k) = 0
     /\ log_lines[k + 1] \notin rejected}

\* The 0-based range [k, j) that follows the command line k (1-based).
RangeAfter(k) ==
  <<k, IF NextCommandAfter(k) = 0 THEN Len(log_lines) ELSE NextCommandAfter(k) - 1>>

LastRangeOf(ks) == IF ks = {} THEN NoRange ELSE RangeAfter(Max(ks))

\* error_lines_range is the last temp range that was closed by a command
\* line and passed; the range grouped at the end is the last that passed,
\* the one still open at the end included.
PromotedWhenPassing(rejected) ==
  /\ scan.error_lines_range = LastRangeOf(ClosedPassing(rejected))
  /\ pc = "done" =>
       LET r == LastRangeOf(ClosedPassing(rejected) \cup OpenPassing(rejected))
       IN  /\ JccFinalRange(scan, log_lines) = r
           /\ r # NoRange =>
                result = group_error_messages(
                           SanitizeLines(Slice(log_lines, r[1], r[2])))

\* C17 as stated: a temp range is promoted if and only if it is not empty
\* and its first line is not a clang driver error line, when closed by a
\* command line and when open at the end of the log; the final range is the
\* last temp range that passed, a later one that fails leaves it in place.
C17_PromotedUnlessDriverError == PromotedWhenPassing(DriverErrorLines)

\* C17, amended: a temp range is promoted if and only if it is not empty
\* and its first line, stripped, is neither empty nor a clang driver error
\* line, when closed by a command line and when open at the end of the log;
\* the final range is the last temp range that passed.
C17_PromotedUnlessBlankOrDriverError ==
  PromotedWhenPassing(DriverErrorLines \cup BlankLines)

\* A promoted range followed by a matching block that fails the test.
C17_Witness ==
  /\ pc = "done"
  /\ scan.error_lines_range # NoRange
  /\ scan.temp_range[1] # None
  /\ scan.temp_range[1] < Len(log_lines)
  /\ JccFinalRange(scan, log_lines) = scan.error_lines_range
  /\ result # <<>>

(***************************************************************************)
(* Claims on get_jcc_errstr: the target names.                             *)
(***************************************************************************)
\* The names the scan starts with, for each target of the model.
SeedNames ==
  [b \in TargetBasenames |->
     IF b = "t.c"
     THEN <<"t.c", "jcc-corrected-t.c", "t.cpp", "jcc-corrected-t.cpp">>
     ELSE <<b, "jcc-corrected-" \o b>>]

\* The output names added to target_names since the start of the scan.
AddedNames ==
  {scan.target_names[k] :
     k \in (Len(SeedNames[project_target_basename]) + 1)..Len(scan.target_names)}

\* Command line l has a positional argument whose basename is n.
HasPositional(l, n) == PolicyScan(<<n>>, ArgsOf[l], 1, "", "").target_found = n

\* The step reads command line l.
ReadsCommand(l) == l \in CommandLines /\ log_lines' = Append(log_lines, l)

C18_NamesStep ==
  /\ SubSeq(scan'.target_names, 1, Len(scan.target_names)) = scan.target_names
  /\ \A l \in CommandLines :
       ReadsCommand(l) =>
         /\ ResolvedName(scan.target_names, l) # "" =>
              \E k \in 1..Len(scan'.target_names) :
                scan'.target_names[k] = ResolvedName(scan.target_names, l)
         /\ \A n \in AddedNames :
              HasPositional(l, n) =>
                /\ pc' = "scan"
                /\ ResolvedName(scan.target_names, l) # ""
                /\ scan'.temp_range = <<Len(log_lines) + 1, None>>

C18_SeedNamesKept ==
  /\ Len(scan.target_names) >= Len(SeedNames[project_target_basename])
  /\ SubSeq(scan.target_names, 1, Len(SeedNames[project_target_basename]))
       = SeedNames[project_target_basename]

\* C18: the target names start as the requested basename and its
\* jcc-corrected form, with the .cpp variants for a .c target; every
\* resolved output that is not empty is added and none is removed; so once
\* a command has resolved to output N, every later command line with a
\* positional argument of basename N resolves too and opens a temp range.
C18_NamesGrow == []C18_SeedNamesKept /\ [][C18_NamesStep]_vars

(***************************************************************************)
(* Claims on extract_error_message: escape sequences and classification.   *)
(***************************************************************************)
UncoloredOf == [l \in BuildLogLines |-> uncolored_line(l)]

\* The lines that are start lines once their escape sequences are removed.
UncoloredStartLinesOf ==
  [b \in BuildTargets |->
     {l \in BuildLogLines : IsStartLine(UncoloredOf[l], splitext_root(b))}]

\* The lines that are terminator lines once their escape sequences are removed.
UncoloredEndLines == {l \in BuildLogLines : IsEndLine(UncoloredOf[l])}

\* The ranges after the first k lines of the log when each line is
\* classified with its escape sequences removed.
RECURSIVE UncoloredScan(_)
UncoloredScan(k) ==
  IF k = 0 THEN ScanInit
  ELSE LET x == UncoloredScan(k - 1)
       IN  IF /\ x.temp_range[1] = None
              /\ log_lines[k] \in UncoloredStartLinesOf[project_target_basename]
           THEN [x EXCEPT !.temp_range = <<k - 1, None>>]
           ELSE IF x.temp_range[1] # None /\ log_lines[k] \in UncoloredEndLines
                THEN [error_lines_range |-> <<x.temp_range[1], k - 1>>,
                      temp_range |-> NoRange]
           ELSE x

\* C19: each line is classified with its escape sequences removed: the
\* range found for a log is the range found for the same log with every
\* escape sequence stripped, so a terminator line that carries a trailing
\* colour-reset sequence closes the open range.
C19_ClassifiedUncolored == scan = UncoloredScan(Len(log_lines))

\* C20: when extract_error_message has sealed a range, the list it returns
\* is not empty, whatever the range holds, a range of DWARF-marked linker
\* lines only included.
C20_SealedGivesBlocks ==
  (pc = "done" /\ scan.error_lines_range[1] # None) => result # <<>>

(***************************************************************************)
(* Claims on both extractors: the bounds of the error range.               *)
(***************************************************************************)
\* The range r over a log of n lines: both bounds undefined, or only the
\* start defined, or 0 <= start < end <= n.
WellFormedRange(r, n) ==
  /\ r[1] = None => r[2] = None
  /\ (r[1] # None /\ r[2] # None) => (0 <= r[1] /\ r[1] < r[2] /\ r[2] <= n)

\* C21: in both extractors, at every point of the scan, when both bounds of
\* error_lines_range are defined 0 <= start < end <= number of log lines,
\* so a sealed range is never empty, and the end bound is never defined
\* while the start bound is undefined; the same holds of the range that
\* get_jcc_errstr settles on after its loop.
C21_RangeWellFormed ==
  /\ WellFormedRange(scan.error_lines_range, Len(log_lines))
  /\ (IsJccScan /\ pc = "done") =>
       WellFormedRange(JccFinalRange(scan, log_lines), Len(log_lines))

\* A sealed range with lines before and after it, in get_jcc_errstr.
C21_Witness ==
  /\ IsJccScan
  /\ pc = "scan"
  /\ scan.error_lines_range[1] > 0
  /\ scan.error_lines_range[2] > scan.error_lines_range[1]
  /\ scan.error_lines_range[2] < Len(log_lines)
=============================================================================
